---- MODULE Spec2Model ----
(***************************************************************************)
(* Anti-raid detector and moderation state of the Cabbit cog               *)
(* (src/shieldbotv3_fixed.py): the warns, mutes and anti-raid config       *)
(* tables with their JSON files, the per-user message activity windows,    *)
(* the antiraid configuration command, the manual moderation commands and  *)
(* the on_message listener.  Every handler is a coroutine; the only        *)
(* suspension points that precede a state change are the platform calls    *)
(* (ban, kick, timeout, unban), so a handler is modelled as the step up to *)
(* the call and the step that resumes it with the call's outcome.          *)
(***************************************************************************)
EXTENDS Integers, Sequences, FiniteSets, Bags, TLC

\* ---------------------------------------------------------------- universe
Guilds == {"g1", "g2"}
Users == {"u1", "u2"}
Moderators == {"m1"}

\* guild_permissions of a member, as the set of permissions that are set
PermSets == {{}, {"kick_members"}, {"ban_members", "moderate_members"}, {"administrator"}}

\* top_role.position of a member
Ranks == {1, 2}

\* the action strings an administrator may type, and str.lower of each
ActionInputs == {"ban", "kick", "mute", "warn", "off", "OFF", "nuke"}

Lower(s) ==
    IF s = "OFF" THEN "off" ELSE s

MessagesInputs == {0, 2, 20}
WindowInputs == {0, 2}
MuteDurationInputs == {0, 1, 40320, 40321}
MinutesInputs == {10}

\* whether save_json manages to write; the files are writable here
Saves == {TRUE}

\* whether save_json manages to write, where a write may fail
SaveOutcomes == BOOLEAN
Reasons == {""}

\* ------------------------------------------------------------------ bounds
MaxTime == 1
MaxWindow == 2
MaxMessages == 3
MaxWarns == 1
MaxPending == 2
SysMaxWindow == 2
SysMaxWarns == 1
SysMaxPending == 1
MaxWarnList == 3
MaxUnsaved == 2
MaxHistory == 11

\* the inputs each specification draws
RaidGuilds == {"g1"}
RaidUsers == {"u1"}
RaidActions == {"ban", "kick", "mute", "warn", "off"}
RaidMessages == {1, 2}
RaidWindows == {1, 2}
RaidDurations == {30}
TrackerActions == {"kick", "warn", "off"}
ConfigGuilds == {"g1"}
MuteActions == {"mute", "off"}
WarnActions == {"warn", "off"}
WarnMessages == {1}
WarnWindows == {1}
SysGuilds == {"g1"}
SysUsers == {"u1"}
SysActions == {"kick", "warn", "off"}
SysMessages == {1}
SysWindows == {2}
SysDurations == {30}
IsoPerms == {{}, {"administrator"}}
IsoRanks == {1}
IsoActions == {"kick", "warn"}
IsoMessages == {2}
IsoMuteGuilds == {"g2"}
IsoMuteUsers == {"u1"}
Channels == {"c1", "c2"}
Texts == {"hi"}

\* ------------------------------------------------------- program constants
MinMuteDuration == 1
MaxMuteDuration == 40320
DefaultMessages == 20
DefaultWindow == 5
DefaultMuteDuration == 30
SecondsPerMinute == 60
HistoryLimit == 10

VARIABLES
    antiraid,        \* self.antiraid: guild -> config record
    warns,           \* self.warns: guild -> user -> list of warn entries
    mutes,           \* self.mutes: guild -> user -> mute record
    msg_activity,    \* self.msg_activity: guild -> user -> list of timestamps
    antiraid_file,   \* contents of antiraid.json
    warns_file,      \* contents of warns.json
    mutes_file,      \* contents of mutes.json
    pending,         \* bag of handlers suspended on a platform call
    clock,           \* time.time()
    conv_memory,     \* self.conv_memory: channel -> list of {author, message}
    conv_file,       \* contents of conv_memory.json
    tracked,         \* history variable: the timestamps the listener has appended, per (guild, user)
    last             \* what the last handler step did

vars == <<antiraid, warns, mutes, msg_activity, antiraid_file, warns_file, mutes_file, pending, clock, conv_memory, conv_file, tracked, last>>

\* ------------------------------------------------------------ dictionaries
EmptyDict == <<>>

Put(d, k, v) == [x \in (DOMAIN d) \cup {k} |-> IF x = k THEN v ELSE d[x]]

Del(d, k) == [x \in (DOMAIN d) \ {k} |-> d[x]]

\* d.get(k, default)
Get(d, k, default) == IF k \in DOMAIN d THEN d[k] ELSE default

\* d[g][u] = v after d.setdefault(g, {})
Put2(d, g, u, v) == Put(d, g, Put(Get(d, g, EmptyDict), u, v))

Get2(d, g, u, default) == Get(Get(d, g, EmptyDict), u, default)

Has2(d, g, u) == g \in DOMAIN d /\ u \in DOMAIN d[g]

\* ------------------------------------------------------- budgets of a run
RECURSIVE SumLen(_, _)
SumLen(S, f) == IF S = {} THEN 0 ELSE LET x == CHOOSE y \in S : TRUE IN Len(f[x]) + SumLen(S \ {x}, f)

TotalWarns == SumLen({p \in Guilds \X Users : Has2(warns, p[1], p[2])}, [p \in Guilds \X Users |-> Get2(warns, p[1], p[2], <<>>)])

\* ------------------------------------------------------------- persistence
\* save_json either writes the whole table or fails, logs and returns
\* variant: the write is put off, the file keeps its contents
save_json_later(file, data, ok) == file

\* variant: the file is opened for exclusive creation, an existing file is kept
save_json_exclusive(file, data, ok) == IF ok /\ file = EmptyDict THEN data ELSE file

save_json(file, data, ok) == IF ok THEN data ELSE file

\* ------------------------------------------------------ the last step's log
NoStep == [op |-> "init", guild |-> "", user |-> "", calls |-> {}, dispatched |-> "none", count |-> -1, notified |-> FALSE, saved |-> {}, outcome |-> "none"]

Step(op, g, u, calls, dispatched, count, notified, saved, outcome) == [op |-> op, guild |-> g, user |-> u, calls |-> calls, dispatched |-> dispatched, count |-> count, notified |-> notified, saved |-> saved, outcome |-> outcome]

\* ------------------------------------------------------------------- tasks
Task(kind, g, u, action, until, moderator, reason) == [kind |-> kind, guild |-> g, user |-> u, action |-> action, until |-> until, moderator |-> moderator, reason |-> reason]

Suspend(t) == pending (+) SetToBag({t})

\* variant: the handler stays suspended when its call is over
ResumeNever(t) == pending

Resume(t) == pending (-) SetToBag({t})

\* ------------------------------------------------------------ permissions
\* Member.guild_permissions: an administrator holds every permission
has_permissions(perms, p) == p \in perms \/ "administrator" \in perms

\* variant: only administrators are skipped
ExemptAdminsOnly(perms) == "administrator" \in perms

\* on_message: "Skip admins and mods"
Exempt(perms) == "administrator" \in perms \/ has_permissions(perms, "kick_members")

\* ---------------------------------------------------------- antiraid command
ValidActions == {"ban", "kick", "mute", "warn", "off"}

\* variant: any action string is taken
InvalidActionNever(action) == FALSE

InvalidAction(action) == action \notin ValidActions

\* variants: the range is checked whatever the action; the lower end is excluded
InvalidDurationAnyAction(action, mute_duration) == mute_duration < MinMuteDuration \/ mute_duration > MaxMuteDuration

InvalidDurationLowEnd(action, mute_duration) == action = "mute" /\ (mute_duration <= MinMuteDuration \/ mute_duration > MaxMuteDuration)

InvalidMuteDuration(action, mute_duration) == action = "mute" /\ (mute_duration < MinMuteDuration \/ mute_duration > MaxMuteDuration)

DisabledConfig == [enabled |-> FALSE, action |-> "kick", messages |-> DefaultMessages, window |-> DefaultWindow, mute_duration |-> DefaultMuteDuration]

EnabledConfig(action, messages, window, mute_duration) == [enabled |-> TRUE, action |-> action, messages |-> messages, window |-> window, mute_duration |-> mute_duration]

\* variant: off is stored like any other action
NewConfigArmed(action, messages, window, mute_duration) == EnabledConfig(action, messages, window, mute_duration)

NewConfig(action, messages, window, mute_duration) == IF action = "off" THEN DisabledConfig ELSE EnabledConfig(action, messages, window, mute_duration)

AntiraidCmd(g, perms, raw_action, messages, window, mute_duration, ok) ==
    LET action == Lower(raw_action) IN
    /\ has_permissions(perms, "administrator")
    /\ IF InvalidAction(action) \/ InvalidMuteDuration(action, mute_duration)
       THEN /\ UNCHANGED <<antiraid, antiraid_file>>
            /\ last' = Step("antiraid", g, "", {}, "none", -1, FALSE, {}, "rejected")
       ELSE /\ antiraid' = Put(antiraid, g, NewConfig(action, messages, window, mute_duration))
            /\ antiraid_file' = save_json(antiraid_file, antiraid', ok)
            /\ last' = Step("antiraid", g, "", {}, "none", -1, FALSE, IF ok THEN {"antiraid"} ELSE {}, "stored")
    /\ UNCHANGED <<warns, mutes, msg_activity, warns_file, mutes_file, pending, clock>>

\* ------------------------------------------------------------ activity window
\* variant: a running total, no timestamp expires
PruneNothing(ts, now, window_seconds) == ts

RECURSIVE Prune(_, _, _)
Prune(ts, now, window_seconds) ==
    IF ts = <<>> THEN <<>>
    ELSE IF now - Head(ts) < window_seconds
         THEN <<Head(ts)>> \o Prune(Tail(ts), now, window_seconds)
         ELSE Prune(Tail(ts), now, window_seconds)

\* variant: nothing is pruned
RecordUnpruned(ts, now, window_seconds) == Append(ts, now)

\* variant: the new timestamp is put in front
RecordInFront(ts, now, window_seconds) == <<now>> \o Prune(ts, now, window_seconds)

Record(ts, now, window_seconds) == Append(Prune(ts, now, window_seconds), now)

\* variant: the comparison is strict
ThresholdStrict(count, threshold_messages) == count > threshold_messages

ThresholdExceeded(count, threshold_messages) == count >= threshold_messages

PlatformActions == {"ban", "kick", "mute"}

WarnEntry(moderator, reason, now) == [moderator |-> moderator, reason |-> reason, time |-> now]

\* variant: the new entry is put in front
PrependWarn(g, u, entry) == Put2(warns, g, u, <<entry>> \o Get2(warns, g, u, <<>>))

\* g = self.warns.setdefault(guild, {}); m = g.setdefault(user, []); m.append(entry)
AppendWarn(g, u, entry) == Put2(warns, g, u, Append(Get2(warns, g, u, <<>>), entry))

AntiRaidModerator == "Anti-raid system"

AntiRaidReason == "Spam detected"

\* variant: the window is kept
KeepActivity(g, u) == msg_activity

\* variant: the windows of the whole guild are dropped
ClearGuildActivity(g, u) == Put(msg_activity, g, EmptyDict)

\* "Clear activity"
ClearActivity(g, u) == Put2(msg_activity, g, u, <<>>)

\* variant: the enabled flag is not consulted
AntiRaidConfigured(g) == g \in DOMAIN antiraid

\* the guard of the anti-raid block of on_message
AntiRaidEnabled(g) == g \in DOMAIN antiraid /\ antiraid[g].enabled

\* ------------------------------------------------------------------ on_message
OnMessageIdle(g, u, outcome) ==
    /\ last' = Step("on_message", g, u, {}, "none", -1, FALSE, {}, outcome)
    /\ UNCHANGED <<antiraid, warns, mutes, msg_activity, antiraid_file, warns_file, mutes_file, pending, clock>>

OnMessageTracked(g, u, ok) ==
    LET config == antiraid[g]
        threshold_messages == config.messages
        window_seconds == config.window
        now == clock
        ts == Record(Get2(msg_activity, g, u, <<>>), now, window_seconds)
        count == Len(ts)
        action == config.action
    IN
    /\ IF ~ThresholdExceeded(count, threshold_messages)
       THEN /\ msg_activity' = Put2(msg_activity, g, u, ts)
            /\ last' = Step("on_message", g, u, {}, "none", count, FALSE, {}, "tracked")
            /\ UNCHANGED <<warns, warns_file, pending>>
       ELSE IF action \in PlatformActions
       THEN /\ msg_activity' = Put2(msg_activity, g, u, ts)
            /\ pending' = Suspend(Task("antiraid", g, u, action, IF action = "mute" THEN now + config.mute_duration * SecondsPerMinute ELSE 0, AntiRaidModerator, ""))
            /\ last' = Step("on_message", g, u, {action}, action, count, FALSE, {}, "called")
            /\ UNCHANGED <<warns, warns_file>>
       ELSE IF action = "warn"
       THEN /\ warns' = AppendWarn(g, u, WarnEntry(AntiRaidModerator, AntiRaidReason, now))
            /\ warns_file' = save_json(warns_file, warns', ok)
            /\ msg_activity' = ClearActivity(g, u)
            /\ last' = Step("on_message", g, u, {}, "warn", count, TRUE, IF ok THEN {"warns"} ELSE {}, "warned")
            /\ UNCHANGED pending
       ELSE /\ msg_activity' = ClearActivity(g, u)
            /\ last' = Step("on_message", g, u, {}, action, count, TRUE, {}, "cleared")
            /\ UNCHANGED <<warns, warns_file, pending>>
    /\ UNCHANGED <<antiraid, mutes, antiraid_file, mutes_file, clock>>

OnMessage(g, u, perms, ok) ==
    IF AntiRaidEnabled(g)
    THEN IF Exempt(perms)
         THEN OnMessageIdle(g, u, "exempt")
         ELSE OnMessageTracked(g, u, ok)
    ELSE OnMessageIdle(g, u, "disabled")

\* variant: the window is cleared whether the call returned or raised
ClearsActivityAlways(success) == TRUE

\* the clear is inside the try, after the call
ClearsActivity(success) == success

\* the platform call of a tripped message returns or raises
AntiRaidResumed(t, success) ==
    /\ BagIn(t, pending)
    /\ t.kind = "antiraid"
    /\ pending' = Resume(t)
    /\ msg_activity' = IF ClearsActivity(success) THEN ClearActivity(t.guild, t.user) ELSE msg_activity
    /\ last' = Step("antiraid_resumed", t.guild, t.user, {}, t.action, -1, success, {}, IF success THEN "success" ELSE "failure")
    /\ UNCHANGED <<antiraid, warns, mutes, antiraid_file, warns_file, mutes_file, clock>>

\* ------------------------------------------------------ moderation commands
\* "Check if invoker has higher rank than target"
RankBlocked(target_rank, actor_rank, perms) == target_rank >= actor_rank /\ "administrator" \notin perms

Rejected(op, g, u) ==
    /\ last' = Step(op, g, u, {}, "none", -1, FALSE, {}, "rejected")
    /\ UNCHANGED <<antiraid, warns, mutes, msg_activity, antiraid_file, warns_file, mutes_file, pending, clock>>

\* the handler reaches its platform call and suspends on it
Called(op, g, u, t) ==
    /\ pending' = Suspend(t)
    /\ last' = Step(op, g, u, {op}, "none", -1, FALSE, {}, "called")
    /\ UNCHANGED <<antiraid, warns, mutes, msg_activity, antiraid_file, warns_file, mutes_file, clock>>

Kick(g, actor, perms, actor_rank, member, member_rank, reason) ==
    /\ has_permissions(perms, "kick_members")
    /\ IF RankBlocked(member_rank, actor_rank, perms)
       THEN Rejected("kick", g, member)
       ELSE Called("kick", g, member, Task("kick", g, member, "kick", 0, actor, reason))

Ban(g, actor, perms, actor_rank, member, member_rank, reason) ==
    /\ has_permissions(perms, "ban_members")
    /\ IF RankBlocked(member_rank, actor_rank, perms)
       THEN Rejected("ban", g, member)
       ELSE Called("ban", g, member, Task("ban", g, member, "ban", 0, actor, reason))

Warn(g, actor, perms, actor_rank, member, member_rank, reason, ok) ==
    /\ has_permissions(perms, "kick_members")
    /\ IF RankBlocked(member_rank, actor_rank, perms)
       THEN Rejected("warn", g, member)
       ELSE /\ warns' = AppendWarn(g, member, WarnEntry(actor, reason, clock))
            /\ warns_file' = save_json(warns_file, warns', ok)
            /\ last' = Step("warn", g, member, {}, "none", -1, FALSE, IF ok THEN {"warns"} ELSE {}, "stored")
            /\ UNCHANGED <<antiraid, mutes, msg_activity, antiraid_file, mutes_file, pending, clock>>

Mute(g, actor, perms, actor_rank, member, member_rank, minutes, reason) ==
    /\ has_permissions(perms, "moderate_members")
    /\ IF RankBlocked(member_rank, actor_rank, perms)
       THEN Rejected("mute", g, member)
       ELSE Called("mute", g, member, Task("mute", g, member, "mute", clock + minutes * SecondsPerMinute, actor, reason))

Unmute(g, actor, perms, actor_rank, member, member_rank, reason) ==
    /\ has_permissions(perms, "moderate_members")
    /\ IF RankBlocked(member_rank, actor_rank, perms)
       THEN Rejected("unmute", g, member)
       ELSE Called("unmute", g, member, Task("unmute", g, member, "unmute", 0, actor, reason))

\* unban takes a discord.User and compares no ranks
Unban(g, actor, perms, user, reason) ==
    /\ has_permissions(perms, "ban_members")
    /\ Called("unban", g, user, Task("unban", g, user, "unban", 0, actor, reason))

\* removewarn compares no ranks
Removewarn(g, actor, perms, member, ok) ==
    /\ has_permissions(perms, "kick_members")
    /\ IF Has2(warns, g, member)
       THEN /\ warns' = Put(warns, g, Del(warns[g], member))
            /\ warns_file' = save_json(warns_file, warns', ok)
            /\ last' = Step("removewarn", g, member, {}, "none", -1, TRUE, IF ok THEN {"warns"} ELSE {}, "stored")
       ELSE /\ last' = Step("removewarn", g, member, {}, "none", -1, FALSE, {}, "none")
            /\ UNCHANGED <<warns, warns_file>>
    /\ UNCHANGED <<antiraid, mutes, msg_activity, antiraid_file, mutes_file, pending, clock>>

MuteRecord(until, moderator, reason) == [until |-> until, moderator |-> moderator, reason |-> reason]

\* variant: the record is written whatever the call returned
WritesMuteAlways(kind, success) == kind = "mute"

\* mute writes its record, and unmute deletes it, after the timeout call returned
WritesMute(kind, success) == success /\ kind = "mute"

\* variant: unmute keeps the record
DeletesMuteNever(kind, success) == FALSE

DeletesMute(kind, success) == success /\ kind = "unmute"

\* the platform call of a manual command returns or raises
CommandResumed(t, success, ok) ==
    /\ BagIn(t, pending)
    /\ t.kind \in {"kick", "ban", "mute", "unmute", "unban"}
    /\ pending' = Resume(t)
    /\ IF WritesMute(t.kind, success)
       THEN /\ mutes' = Put2(mutes, t.guild, t.user, MuteRecord(t.until, t.moderator, t.reason))
            /\ mutes_file' = save_json(mutes_file, mutes', ok)
            /\ last' = Step(t.kind \o "_resumed", t.guild, t.user, {}, "none", -1, TRUE, IF ok THEN {"mutes"} ELSE {}, IF success THEN "success" ELSE "failure")
       ELSE IF DeletesMute(t.kind, success) /\ Has2(mutes, t.guild, t.user)
       THEN /\ mutes' = Put(mutes, t.guild, Del(mutes[t.guild], t.user))
            /\ mutes_file' = save_json(mutes_file, mutes', ok)
            /\ last' = Step(t.kind \o "_resumed", t.guild, t.user, {}, "none", -1, TRUE, IF ok THEN {"mutes"} ELSE {}, IF success THEN "success" ELSE "failure")
       ELSE /\ last' = Step(t.kind \o "_resumed", t.guild, t.user, {}, "none", -1, success /\ t.kind \in {"unmute", "unban"}, {}, IF success THEN "success" ELSE "failure")
            /\ UNCHANGED <<mutes, mutes_file>>
    /\ UNCHANGED <<antiraid, warns, msg_activity, antiraid_file, warns_file, clock>>

\* ----------------------------------------------------------------------- clock
Tick ==
    /\ clock' = clock + 1
    /\ last' = Step("tick", "", "", {}, "none", -1, FALSE, {}, "none")
    /\ UNCHANGED <<antiraid, warns, mutes, msg_activity, antiraid_file, warns_file, mutes_file, pending>>

\* ----------------------------------------------------------------------- system
Init ==
    /\ antiraid = EmptyDict
    /\ warns = EmptyDict
    /\ mutes = EmptyDict
    /\ msg_activity = EmptyDict
    /\ antiraid_file = EmptyDict
    /\ warns_file = EmptyDict
    /\ mutes_file = EmptyDict
    /\ pending = EmptyBag
    /\ clock = 0
    /\ conv_memory = EmptyDict
    /\ conv_file = EmptyDict
    /\ tracked = [p \in Guilds \X Users |-> <<>>]
    /\ last = NoStep

\* ------------------------------------------------------- bounded environments
TotalTracked == SumLen(DOMAIN tracked, tracked)

\* a specification lets a window grow to maxm timestamps, records at most maxw
\* warns, has at most maxp handlers suspended at a time and, where it keeps
\* the history, tracks at most MaxMessages messages
Room(g, u, maxm, maxw, maxp) == Len(Get2(msg_activity, g, u, <<>>)) < maxm /\ TotalWarns < maxw /\ BagCardinality(pending) < maxp /\ TotalTracked < MaxMessages

Commands(GS, US, PS, RS, maxw, maxp) ==
    \/ \E g \in GS, a \in Moderators, p \in PS, ar \in RS, m \in US, mr \in RS, r \in Reasons : BagCardinality(pending) < maxp /\ Kick(g, a, p, ar, m, mr, r)
    \/ \E g \in GS, a \in Moderators, p \in PS, ar \in RS, m \in US, mr \in RS, r \in Reasons : BagCardinality(pending) < maxp /\ Ban(g, a, p, ar, m, mr, r)
    \/ \E g \in GS, a \in Moderators, p \in PS, ar \in RS, m \in US, mr \in RS, r \in Reasons, ok \in Saves : TotalWarns < maxw /\ Warn(g, a, p, ar, m, mr, r, ok)
    \/ \E g \in GS, a \in Moderators, p \in PS, ar \in RS, m \in US, mr \in RS, n \in MinutesInputs, r \in Reasons : BagCardinality(pending) < maxp /\ Mute(g, a, p, ar, m, mr, n, r)
    \/ \E g \in GS, a \in Moderators, p \in PS, ar \in RS, m \in US, mr \in RS, r \in Reasons : BagCardinality(pending) < maxp /\ Unmute(g, a, p, ar, m, mr, r)
    \/ \E g \in GS, a \in Moderators, p \in PS, u \in US, r \in Reasons : BagCardinality(pending) < maxp /\ Unban(g, a, p, u, r)
    \/ \E g \in GS, a \in Moderators, p \in PS, m \in US, ok \in Saves : Removewarn(g, a, p, m, ok)
    \/ \E t \in BagToSet(pending), success \in BOOLEAN, ok \in Saves : CommandResumed(t, success, ok)

AntiRaid(GS, US, PS, AS, MS, WS, DS, maxm, maxw, maxp) ==
    \/ \E g \in GS, p \in PS, a \in AS, m \in MS, w \in WS, d \in DS, ok \in Saves : AntiraidCmd(g, p, a, m, w, d, ok)
    \/ \E g \in GS, u \in US, p \in PS, ok \in Saves : Room(g, u, maxm, maxw, maxp) /\ OnMessage(g, u, p, ok)
    \/ \E t \in BagToSet(pending), success \in BOOLEAN : AntiRaidResumed(t, success)

Clock(maxt) == clock < maxt /\ Tick

\* the history of a step: the timestamp a listener step appended to a window
Tracking == tracked' = IF last'.op = "on_message" /\ last'.count >= 0 THEN [tracked EXCEPT ![<<last'.guild, last'.user>>] = Append(@, clock)] ELSE tracked

\* the anti-raid path: the configuration command, the listener and its calls
NextRaid == (Clock(MaxTime) \/ AntiRaid(RaidGuilds, RaidUsers, PermSets, RaidActions, RaidMessages, RaidWindows, RaidDurations, MaxWindow, MaxWarns, MaxPending)) /\ UNCHANGED <<tracked, conv_memory, conv_file>>

SpecRaid == Init /\ [][NextRaid]_vars

\* the anti-raid path with its history
NextTracker == (Clock(MaxTime) \/ AntiRaid(RaidGuilds, RaidUsers, PermSets, TrackerActions, RaidMessages, RaidWindows, RaidDurations, MaxWindow, MaxWarns, MaxPending)) /\ Tracking /\ UNCHANGED <<conv_memory, conv_file>>

SpecTracker == Init /\ [][NextTracker]_vars

\* the manual moderation commands
NextMod == (Clock(MaxTime) \/ Commands(RaidGuilds, RaidUsers, PermSets, Ranks, MaxWarns, MaxPending)) /\ UNCHANGED <<tracked, conv_memory, conv_file>>

SpecMod == Init /\ [][NextMod]_vars

\* the configuration command over its whole input range
NextConfig == (\E g \in ConfigGuilds, p \in PermSets, a \in ActionInputs, m \in MessagesInputs, w \in WindowInputs, d \in MuteDurationInputs, ok \in Saves : AntiraidCmd(g, p, a, m, w, d, ok)) /\ UNCHANGED <<tracked, conv_memory, conv_file>>

SpecConfig == Init /\ [][NextConfig]_vars

\* the whole cog
Next == (AntiRaid(SysGuilds, SysUsers, PermSets, SysActions, SysMessages, SysWindows, SysDurations, SysMaxWindow, SysMaxWarns, SysMaxPending) \/ Commands(SysGuilds, SysUsers, PermSets, Ranks, SysMaxWarns, SysMaxPending)) /\ UNCHANGED <<tracked, conv_memory, conv_file>>

Spec == Init /\ [][Next]_vars

\* ===================================================================== claims
\* the window of (g, u), and the number of its timestamps that a message at
\* time now keeps under a window of w seconds
Window(g, u) == Get2(msg_activity, g, u, <<>>)

Kept(ts, now, w) == Cardinality({i \in DOMAIN ts : now - ts[i] < w})

\* C1: a tracked message trips exactly when its window count (the timestamps
\* of the trailing window plus the message itself) reaches the configured
\* threshold; a trip dispatches the configured action and nothing else (one
\* platform call for ban, kick and mute, one warn entry for warn); below the
\* threshold no call is issued and no warn is recorded.
C1_TripIffThreshold ==
    [][(last'.op = "on_message" /\ last'.outcome \notin {"exempt", "disabled"}) =>
        LET g == last'.guild
            u == last'.user
            cfg == antiraid[g]
            count == Kept(Window(g, u), clock, cfg.window) + 1
            tripped == count >= cfg.messages
        IN /\ last'.count = count
           /\ tripped <=> last'.dispatched # "none"
           /\ tripped => /\ last'.dispatched = cfg.action
                         /\ IF cfg.action = "warn"
                            THEN /\ pending' = pending
                                 /\ last'.calls = {}
                                 /\ Len(Get2(warns', g, u, <<>>)) = Len(Get2(warns, g, u, <<>>)) + 1
                            ELSE /\ warns' = warns
                                 /\ last'.calls = {cfg.action}
                                 /\ BagCardinality(pending') = BagCardinality(pending) + 1
                                 /\ \E t \in BagToSet(pending') : t.kind = "antiraid" /\ t.action = cfg.action /\ t.guild = g /\ t.user = u /\ pending' = pending (+) SetToBag({t})
           /\ ~tripped => pending' = pending /\ warns' = warns /\ last'.calls = {}]_vars

C1_Witness ==
    /\ last.op = "on_message"
    /\ last.dispatched = "ban"
    /\ last.count = 2
    /\ antiraid[last.guild].messages = 2
    /\ \E t \in BagToSet(pending) : t.action = "ban" /\ t.user = last.user

C3_DisabledNoAction ==
    [][(last'.op = "on_message" /\ (last'.guild \notin DOMAIN antiraid \/ ~antiraid[last'.guild].enabled)) => \A p \in PermSets, ok \in Saves :
        OnMessage(last'.guild, last'.user, p, ok) =>
            /\ UNCHANGED <<msg_activity, pending, warns, warns_file, mutes, mutes_file>>
            /\ last'.calls = {}
            /\ last'.dispatched = "none"]_vars

C3_Witness ==
    /\ last.op = "on_message"
    /\ last.outcome = "disabled"
    /\ last.guild \in DOMAIN antiraid
    /\ ~antiraid[last.guild].enabled
    /\ Window(last.guild, last.user) # <<>>

\* C4: right after a successful automated action (a platform call that
\* returned, or an automated warn) the offender's window is empty and a
\* notification was handed to the modlog forwarder.
C4_SuccessClearsAndNotifies ==
    ((last.op = "antiraid_resumed" /\ last.outcome = "success") \/ (last.op = "on_message" /\ last.dispatched = "warn")) =>
        /\ Window(last.guild, last.user) = <<>>
        /\ Has2(msg_activity, last.guild, last.user)
        /\ last.notified

C4_Witness ==
    /\ last.op = "antiraid_resumed"
    /\ last.outcome = "success"
    /\ last.dispatched = "mute"
    /\ Window(last.guild, last.user) = <<>>

\* C5: a platform call that fails changes no persistent record (warns, mutes,
\* anti-raid configuration, in memory or on file), and on the anti-raid path
\* the offender's window is not cleared.
C5_FailureMutatesNothing ==
    [][last'.outcome = "failure" =>
        UNCHANGED <<warns, mutes, antiraid, warns_file, mutes_file, antiraid_file, msg_activity>>]_vars

C5_Witness ==
    /\ last.op = "antiraid_resumed"
    /\ last.outcome = "failure"
    /\ Window(last.guild, last.user) # <<>>

\* C6: every mute whose timeout call returned, the automated anti-raid mute
\* included, has written a mute record for (guild, user) whose until is the
\* time of the call plus the mute duration.
C6_EveryMuteRecorded ==
    [][((last'.op = "mute_resumed" \/ (last'.op = "antiraid_resumed" /\ last'.dispatched = "mute")) /\ last'.outcome = "success") =>
        \E t \in BagToSet(pending) :
            /\ pending' = pending (-) SetToBag({t})
            /\ t.action = "mute"
            /\ Has2(mutes', last'.guild, last'.user)
            /\ mutes'[last'.guild][last'.user].until = t.until]_vars

\* C7: kick, ban, warn, mute, unmute, unban and removewarn reject an actor
\* who is not administrator and whose rank does not exceed the target's:
\* no platform call and no change of warns or mutes.
C7_RankCheckOnEveryCommand ==
    [][\A g \in Guilds, a \in Moderators, p \in PermSets, ar \in Ranks, m \in Users, mr \in Ranks, n \in MinutesInputs, r \in Reasons, ok \in Saves :
        (/\ mr >= ar
         /\ "administrator" \notin p
         /\ \/ Kick(g, a, p, ar, m, mr, r)
            \/ Ban(g, a, p, ar, m, mr, r)
            \/ Warn(g, a, p, ar, m, mr, r, ok)
            \/ Mute(g, a, p, ar, m, mr, n, r)
            \/ Unmute(g, a, p, ar, m, mr, r)
            \/ Unban(g, a, p, m, r)
            \/ Removewarn(g, a, p, m, ok)) =>
                /\ last'.calls = {}
                /\ UNCHANGED <<pending, warns, mutes, warns_file, mutes_file>>]_vars

\* C8: the antiraid command with action off stores the disabled default
\* record {enabled false, action kick, messages 20, window 5, mute_duration
\* 30} for the guild, whatever the other parameters and the previous record.
C8_OffStoresDefaults ==
    [][last'.op = "antiraid" => \A p \in PermSets, a \in {"off", "OFF"}, m \in MessagesInputs, w \in WindowInputs, d \in MuteDurationInputs, ok \in Saves :
        AntiraidCmd(last'.guild, p, a, m, w, d, ok) =>
            /\ last'.guild \in DOMAIN antiraid'
            /\ antiraid'[last'.guild] = [enabled |-> FALSE, action |-> "kick", messages |-> 20, window |-> 5, mute_duration |-> 30]
            /\ antiraid_file' = antiraid']_vars

C8_Witness ==
    /\ last.op = "antiraid"
    /\ last.outcome = "stored"
    /\ antiraid[last.guild] = [enabled |-> FALSE, action |-> "kick", messages |-> 20, window |-> 5, mute_duration |-> 30]
    /\ antiraid_file = antiraid

\* C9: the antiraid command rejects an action outside ban, kick, mute, warn,
\* off and, for mute, a duration outside 1..40320: the configuration and its
\* file stay as they were; mute with a duration of 1..40320 is stored.
C9_InvalidInputRejected ==
    [][last'.op = "antiraid" => \A p \in PermSets, a \in ActionInputs, m \in MessagesInputs, w \in WindowInputs, d \in MuteDurationInputs, ok \in Saves :
        AntiraidCmd(last'.guild, p, a, m, w, d, ok) =>
            /\ (Lower(a) \notin {"ban", "kick", "mute", "warn", "off"} \/ (Lower(a) = "mute" /\ (d < 1 \/ d > 40320))) =>
                  /\ UNCHANGED <<antiraid, antiraid_file>>
                  /\ last'.saved = {}
                  /\ last'.outcome = "rejected"
            /\ (Lower(a) = "mute" /\ d >= 1 /\ d <= 40320) =>
                  /\ last'.outcome = "stored"
                  /\ last'.guild \in DOMAIN antiraid'
                  /\ antiraid'[last'.guild] = [enabled |-> TRUE, action |-> "mute", messages |-> m, window |-> w, mute_duration |-> d]]_vars

C9_Witness ==
    /\ last.op = "antiraid"
    /\ last.outcome = "rejected"
    /\ last.guild \in DOMAIN antiraid
    /\ antiraid[last.guild].enabled
    /\ antiraid[last.guild].mute_duration = 40320
    /\ antiraid_file = antiraid

\* C10, as stated: the window count of a tracked message equals the number of
\* the user's tracked messages whose timestamp lies in the trailing window
\* ending at that message.
C10_CountEqualsTrailing ==
    (last.op = "on_message" /\ last.count >= 0) =>
        last.count = Kept(tracked[<<last.guild, last.user>>], clock, antiraid[last.guild].window)

\* C10, amended: the window count never exceeds that number, and equals the
\* number of timestamps the window still held inside the trailing interval
\* plus the message itself.
C10_CountWithinTrailing ==
    [][(last'.op = "on_message" /\ last'.count >= 0) =>
        LET g == last'.guild
            u == last'.user
            w == antiraid[g].window
        IN /\ last'.count = Kept(Window(g, u), clock, w) + 1
           /\ last'.count <= Kept(tracked'[<<g, u>>], clock, w)]_vars

C10_Witness ==
    /\ last.op = "on_message"
    /\ last.count = 1
    /\ Kept(tracked[<<last.guild, last.user>>], clock, antiraid[last.guild].window) >= 2

\* C11: the first tracked message of a user after a trip has reset their
\* window counts exactly 1: both when it directly follows the step that
\* cleared the window and whenever it finds the cleared window still empty.
C11_CountOneAfterReset ==
    [][(last'.op = "on_message" /\ last'.count >= 0) =>
        LET g == last'.guild
            u == last'.user
            reset == (last.op = "antiraid_resumed" /\ last.outcome = "success") \/ (last.op = "on_message" /\ last.outcome = "warned")
        IN /\ (reset /\ last.guild = g /\ last.user = u) => last'.count = 1
           /\ (Has2(msg_activity, g, u) /\ msg_activity[g][u] = <<>>) => last'.count = 1]_vars

C11_Witness ==
    /\ last.op = "on_message"
    /\ last.count = 1
    /\ Len(tracked[<<last.guild, last.user>>]) >= 2
    /\ tracked[<<last.guild, last.user>>][Len(tracked[<<last.guild, last.user>>]) - 1] = clock

\* C12: a tracked message does not trip when fewer than threshold of the
\* user's tracked messages, itself included, lie in the trailing window,
\* however many the user has sent in total; and the window it leaves holds
\* only unexpired timestamps.
C12_SlidingWindow ==
    [][(last'.op = "on_message" /\ last'.count >= 0) =>
        LET g == last'.guild
            u == last'.user
            cfg == antiraid[g]
            recent == Kept(tracked'[<<g, u>>], clock, cfg.window)
            after == Get2(msg_activity', g, u, <<>>)
        IN /\ recent < cfg.messages =>
                /\ last'.dispatched = "none"
                /\ last'.calls = {}
                /\ pending' = pending
                /\ warns' = warns
                /\ Len(after) = last'.count
           /\ \A i \in DOMAIN after : clock - after[i] < cfg.window]_vars

C12_Witness ==
    /\ last.op = "on_message"
    /\ last.outcome = "tracked"
    /\ antiraid[last.guild].messages = 2
    /\ antiraid[last.guild].window = 1
    /\ tracked[<<last.guild, last.user>>] = <<0, 1>>
    /\ Window(last.guild, last.user) = <<1>>

\* the warn lists: the warn and removewarn commands and the automated warn
NextWarns ==
    /\ \/ Clock(MaxTime)
       \/ \E g \in RaidGuilds, p \in PermSets, a \in WarnActions, m \in WarnMessages, w \in WarnWindows, d \in RaidDurations, ok \in Saves : AntiraidCmd(g, p, a, m, w, d, ok)
       \/ \E g \in RaidGuilds, u \in Users, p \in PermSets, ok \in Saves : Room(g, u, MaxWindow, MaxWarnList, MaxPending) /\ OnMessage(g, u, p, ok)
       \/ \E g \in RaidGuilds, a \in Moderators, p \in PermSets, ar \in Ranks, m \in Users, mr \in Ranks, r \in Reasons, ok \in Saves : TotalWarns < MaxWarnList /\ Warn(g, a, p, ar, m, mr, r, ok)
       \/ \E g \in RaidGuilds, a \in Moderators, p \in PermSets, m \in Users, ok \in Saves : Removewarn(g, a, p, m, ok)
    /\ UNCHANGED <<tracked, conv_memory, conv_file>>

SpecWarns == Init /\ [][NextWarns]_vars

WarnsOf(g, u) == Get2(warns, g, u, <<>>)

\* C13: the warn list of a (guild, user) changes only by one entry appended
\* at its end, by a warn command or an automated warn for that user, or by
\* being removed whole by removewarn for that user; after removewarn the
\* user has no warns.
C13_WarnsAppendOnly ==
    [][/\ \A g \in Guilds, u \in Users :
            LET old == WarnsOf(g, u)
                new == Get2(warns', g, u, <<>>)
            IN \/ new = old
               \/ /\ Len(new) = Len(old) + 1
                  /\ SubSeq(new, 1, Len(old)) = old
                  /\ last'.guild = g /\ last'.user = u
                  /\ last'.op = "warn" \/ (last'.op = "on_message" /\ last'.dispatched = "warn")
               \/ /\ new = <<>>
                  /\ last'.guild = g /\ last'.user = u
                  /\ last'.op = "removewarn"
       /\ last'.op = "removewarn" => ~Has2(warns', last'.guild, last'.user)]_vars

C13_Witness ==
    /\ last.op = "warn"
    /\ Len(WarnsOf(last.guild, last.user)) = 3
    /\ WarnsOf(last.guild, last.user)[1].moderator = "m1"
    /\ WarnsOf(last.guild, last.user)[2].moderator = "Anti-raid system"
    /\ WarnsOf(last.guild, last.user)[1].time = 0
    /\ WarnsOf(last.guild, last.user)[3].time = 1

\* the mute records: the mute and unmute commands next to the automated mute
NextMutes ==
    /\ \/ Clock(MaxTime)
       \/ \E g \in RaidGuilds, p \in PermSets, a \in MuteActions, m \in WarnMessages, w \in WarnWindows, d \in RaidDurations, ok \in Saves : AntiraidCmd(g, p, a, m, w, d, ok)
       \/ \E g \in RaidGuilds, u \in RaidUsers, p \in PermSets, ok \in Saves : Room(g, u, MaxWindow, MaxWarns, MaxPending) /\ OnMessage(g, u, p, ok)
       \/ \E t \in BagToSet(pending), success \in BOOLEAN : AntiRaidResumed(t, success)
       \/ \E g \in RaidGuilds, a \in Moderators, p \in PermSets, ar \in Ranks, m \in RaidUsers, mr \in Ranks, n \in MinutesInputs, r \in Reasons : BagCardinality(pending) < MaxPending /\ Mute(g, a, p, ar, m, mr, n, r)
       \/ \E g \in RaidGuilds, a \in Moderators, p \in PermSets, ar \in Ranks, m \in RaidUsers, mr \in Ranks, r \in Reasons : BagCardinality(pending) < MaxPending /\ Unmute(g, a, p, ar, m, mr, r)
       \/ \E t \in BagToSet(pending), success \in BOOLEAN, ok \in Saves : CommandResumed(t, success, ok)
    /\ UNCHANGED <<tracked, conv_memory, conv_file>>

SpecMutes == Init /\ [][NextMutes]_vars

\* C14: the mutes table holds one record per (guild, user) key; a mute whose
\* timeout call returned creates or overwrites the record of its target with
\* its own until, moderator and reason; an unmute whose call returned leaves
\* no record for its target; no other step creates, changes or deletes a
\* mute record.
C14_MuteRecordLifecycle ==
    [][/\ \A g \in Guilds, u \in Users :
            \/ /\ Has2(mutes', g, u) <=> Has2(mutes, g, u)
               /\ Has2(mutes, g, u) => mutes'[g][u] = mutes[g][u]
            \/ /\ last'.guild = g /\ last'.user = u
               /\ last'.outcome = "success"
               /\ last'.op \in {"mute_resumed", "unmute_resumed"}
       /\ (last'.op = "mute_resumed" /\ last'.outcome = "success") =>
            \E t \in BagToSet(pending) :
                /\ t.kind = "mute" /\ t.guild = last'.guild /\ t.user = last'.user
                /\ pending' = pending (-) SetToBag({t})
                /\ Has2(mutes', t.guild, t.user)
                /\ mutes'[t.guild][t.user] = [until |-> t.until, moderator |-> t.moderator, reason |-> t.reason]
       /\ (last'.op = "unmute_resumed" /\ last'.outcome = "success") => ~Has2(mutes', last'.guild, last'.user)]_vars

C14_Witness ==
    /\ last.op = "mute_resumed"
    /\ last.outcome = "success"
    /\ Has2(mutes, last.guild, last.user)
    /\ mutes[last.guild][last.user].until = 601
    /\ mutes_file = mutes
    /\ \E t \in BagToSet(pending) : t.kind = "antiraid" /\ t.action = "mute" /\ t.user = last.user

\* C15: every stored anti-raid record has messages >= 1, window >= 1 and
\* mute_duration within 1..40320, whatever its action.
C15_StoredConfigInBounds ==
    \A g \in DOMAIN antiraid :
        /\ antiraid[g].messages >= 1
        /\ antiraid[g].window >= 1
        /\ antiraid[g].mute_duration >= 1
        /\ antiraid[g].mute_duration <= 40320

\* C16: a step that disables a guild's anti-raid record leaves the record's
\* action field as it was configured.
C16_DisableKeepsAction ==
    [][\A g \in DOMAIN antiraid :
        (antiraid[g].enabled /\ g \in DOMAIN antiraid' /\ ~antiraid'[g].enabled) =>
            antiraid'[g].action = antiraid[g].action]_vars

\* C17: a guild's anti-raid record is Armed (enabled, action ban, kick, mute
\* or warn) or Disabled (the disabled default); only the configuration
\* command changes the table or its file, and only the record of the guild
\* it is run in; listener steps, returned or failed platform calls and the
\* moderation commands leave both unchanged; no record is ever deleted.
C17_ConfigOnlyByCommand ==
    [][/\ last'.op # "antiraid" => UNCHANGED <<antiraid, antiraid_file>>
       /\ DOMAIN antiraid \subseteq DOMAIN antiraid'
       /\ \A g \in DOMAIN antiraid' :
            /\ (g \notin DOMAIN antiraid \/ antiraid'[g] # antiraid[g]) => (last'.op = "antiraid" /\ last'.guild = g /\ last'.outcome = "stored")
            /\ IF antiraid'[g].enabled
               THEN antiraid'[g].action \in {"ban", "kick", "mute", "warn"}
               ELSE antiraid'[g] = [enabled |-> FALSE, action |-> "kick", messages |-> 20, window |-> 5, mute_duration |-> 30]]_vars

C17_Witness ==
    /\ last.op = "antiraid_resumed"
    /\ last.outcome = "failure"
    /\ antiraid[last.guild].enabled
    /\ antiraid[last.guild].action = last.dispatched
    /\ antiraid_file = antiraid
    /\ Has2(warns, last.guild, last.user)

\* C18: a table is saved in the step that changes it, so whenever handlers
\* are suspended or idle each file holds its table (saves succeeding).
C18_PersistedEqualsMemory ==
    /\ warns_file = warns
    /\ mutes_file = mutes
    /\ antiraid_file = antiraid

C18_Witness ==
    /\ pending # EmptyBag
    /\ \E g \in DOMAIN warns : \E u \in DOMAIN warns[g] : warns[g][u] # <<>>
    /\ \E g \in DOMAIN mutes : DOMAIN mutes[g] # {}
    /\ \E g \in DOMAIN antiraid : antiraid[g].enabled
    /\ warns_file = warns
    /\ mutes_file = mutes
    /\ antiraid_file = antiraid

\* C19: no message of a user has its tracker update while the platform call
\* of an earlier message of the same (guild, user) is still pending.
C19_NoUpdateWhilePending ==
    [][(last'.op = "on_message" /\ last'.count >= 0) =>
        ~\E t \in BagToSet(pending) : t.kind = "antiraid" /\ t.guild = last'.guild /\ t.user = last'.user]_vars

NextSaves ==
    /\ \/ \E g \in RaidGuilds, p \in PermSets, a \in WarnActions, m \in WarnMessages, w \in WarnWindows, d \in RaidDurations, ok \in SaveOutcomes : AntiraidCmd(g, p, a, m, w, d, ok)
       \/ \E g \in RaidGuilds, u \in RaidUsers, p \in PermSets, ok \in SaveOutcomes : Room(g, u, SysMaxWindow, MaxUnsaved, SysMaxPending) /\ OnMessage(g, u, p, ok)
       \/ \E g \in RaidGuilds, a \in Moderators, p \in PermSets, ar \in Ranks, m \in RaidUsers, mr \in Ranks, r \in Reasons, ok \in SaveOutcomes : TotalWarns < MaxUnsaved /\ Warn(g, a, p, ar, m, mr, r, ok)
       \/ \E g \in RaidGuilds, a \in Moderators, p \in PermSets, m \in RaidUsers, ok \in SaveOutcomes : Removewarn(g, a, p, m, ok)
    /\ UNCHANGED <<tracked, conv_memory, conv_file>>

SpecSaves == Init /\ [][NextSaves]_vars

\* C21: a store write that fails is not fatal: the handler completes with
\* its usual outcome and suspends nothing, the table in memory holds the
\* mutation, and later handlers work on the table in memory: a later write
\* that succeeds puts the whole table, the unsaved mutation included, on file.
C21_FailedSaveNonFatal ==
    [][LET g == last'.guild
           u == last'.user
       IN /\ (last'.op = "warn" /\ last'.outcome = "stored") =>
                /\ Len(Get2(warns', g, u, <<>>)) = Len(WarnsOf(g, u)) + 1
                /\ SubSeq(Get2(warns', g, u, <<>>), 1, Len(WarnsOf(g, u))) = WarnsOf(g, u)
                /\ pending' = pending
          /\ (last'.op = "on_message" /\ last'.outcome = "warned") =>
                /\ Len(Get2(warns', g, u, <<>>)) = Len(WarnsOf(g, u)) + 1
                /\ Get2(msg_activity', g, u, <<0>>) = <<>>
                /\ last'.notified
                /\ pending' = pending
          /\ (last'.op = "removewarn" /\ last'.outcome = "stored") =>
                /\ ~Has2(warns', g, u)
                /\ last'.notified
          /\ (last'.op = "antiraid" /\ last'.outcome = "stored") =>
                \A p \in PermSets, a \in WarnActions, m \in WarnMessages, w \in WarnWindows, d \in RaidDurations :
                    AntiraidCmd(g, p, a, m, w, d, FALSE) =>
                        /\ g \in DOMAIN antiraid'
                        /\ antiraid'[g].enabled = (a # "off")
                        /\ a # "off" => antiraid'[g] = [enabled |-> TRUE, action |-> a, messages |-> m, window |-> w, mute_duration |-> d]
          /\ "warns" \in last'.saved => warns_file' = warns'
          /\ "antiraid" \in last'.saved => antiraid_file' = antiraid']_vars

\* two warns whose writes both failed, the second handled after the first
C21_Witness ==
    /\ last.op = "warn"
    /\ last.outcome = "stored"
    /\ last.saved = {}
    /\ Len(WarnsOf(last.guild, last.user)) = 2
    /\ warns_file = EmptyDict
    /\ antiraid # EmptyDict
    /\ antiraid_file = EmptyDict

\* ------------------------------------------------------------ the JSON files
\* The text json.dump writes, as its sequence of tokens.  The file variables
\* above hold the table a file's text stands for; the definitions below are
\* the text itself and its reading, which is what lets them do so.  A time or
\* until value is the isoformat string of an instant and is written as a
\* string token.
Tok(t, v) == [t |-> t, v |-> v]

JsonString(s) == <<Tok("string", s)>>

JsonNumber(n) == <<Tok("number", n)>>

JsonBool(b) == <<Tok(IF b THEN "true" ELSE "false", "")>>

JsonKey(k) == <<Tok("key", k)>>

JsonObject(members) == <<Tok("{", "")>> \o members \o <<Tok("}", "")>>

JsonArray(items) == <<Tok("[", "")>> \o items \o <<Tok("]", "")>>

\* {"moderator": str, "reason": str, "time": isoformat}
DumpWarnEntry(e) == JsonObject(JsonKey("moderator") \o JsonString(e.moderator) \o JsonKey("reason") \o JsonString(e.reason) \o JsonKey("time") \o JsonString(e.time))

RECURSIVE DumpWarnList(_)
DumpWarnList(l) == IF l = <<>> THEN <<>> ELSE DumpWarnEntry(Head(l)) \o DumpWarnList(Tail(l))

RECURSIVE DumpUserWarns(_, _)
DumpUserWarns(d, K) == IF K = {} THEN <<>> ELSE LET k == CHOOSE x \in K : TRUE IN JsonKey(k) \o JsonArray(DumpWarnList(d[k])) \o DumpUserWarns(d, K \ {k})

RECURSIVE DumpGuildWarns(_, _)
DumpGuildWarns(d, K) == IF K = {} THEN <<>> ELSE LET k == CHOOSE x \in K : TRUE IN JsonKey(k) \o JsonObject(DumpUserWarns(d[k], DOMAIN d[k])) \o DumpGuildWarns(d, K \ {k})

DumpWarns(table) == JsonObject(DumpGuildWarns(table, DOMAIN table))

\* {"until": isoformat, "moderator": str, "reason": str}
DumpMuteRecord(r) == JsonObject(JsonKey("until") \o JsonString(r.until) \o JsonKey("moderator") \o JsonString(r.moderator) \o JsonKey("reason") \o JsonString(r.reason))

RECURSIVE DumpUserMutes(_, _)
DumpUserMutes(d, K) == IF K = {} THEN <<>> ELSE LET k == CHOOSE x \in K : TRUE IN JsonKey(k) \o DumpMuteRecord(d[k]) \o DumpUserMutes(d, K \ {k})

RECURSIVE DumpGuildMutes(_, _)
DumpGuildMutes(d, K) == IF K = {} THEN <<>> ELSE LET k == CHOOSE x \in K : TRUE IN JsonKey(k) \o JsonObject(DumpUserMutes(d[k], DOMAIN d[k])) \o DumpGuildMutes(d, K \ {k})

DumpMutes(table) == JsonObject(DumpGuildMutes(table, DOMAIN table))

\* {"enabled": bool, "action": str, "messages": int, "window": int, "mute_duration": int}
DumpConfig(c) == JsonObject(JsonKey("enabled") \o JsonBool(c.enabled) \o JsonKey("action") \o JsonString(c.action) \o JsonKey("messages") \o JsonNumber(c.messages) \o JsonKey("window") \o JsonNumber(c.window) \o JsonKey("mute_duration") \o JsonNumber(c.mute_duration))

RECURSIVE DumpGuildConfigs(_, _)
DumpGuildConfigs(d, K) == IF K = {} THEN <<>> ELSE LET k == CHOOSE x \in K : TRUE IN JsonKey(k) \o DumpConfig(d[k]) \o DumpGuildConfigs(d, K \ {k})

DumpAntiraid(table) == JsonObject(DumpGuildConfigs(table, DOMAIN table))

\* json.load: a value and the text left after it
Parsed(value, rest) == [value |-> value, rest |-> rest]

RECURSIVE ParseValue(_)
RECURSIVE ParseItems(_, _)
RECURSIVE ParseMembers(_, _)
ParseValue(toks) ==
    LET h == Head(toks) IN
    CASE h.t = "string" -> Parsed(h.v, Tail(toks))
      [] h.t = "number" -> Parsed(h.v, Tail(toks))
      [] h.t = "true" -> Parsed(TRUE, Tail(toks))
      [] h.t = "false" -> Parsed(FALSE, Tail(toks))
      [] h.t = "[" -> ParseItems(Tail(toks), <<>>)
      [] h.t = "{" -> ParseMembers(Tail(toks), EmptyDict)

ParseItems(toks, acc) ==
    IF Head(toks).t = "]" THEN Parsed(acc, Tail(toks))
    ELSE LET r == ParseValue(toks) IN ParseItems(r.rest, Append(acc, r.value))

ParseMembers(toks, acc) ==
    IF Head(toks).t = "}" THEN Parsed(acc, Tail(toks))
    ELSE LET r == ParseValue(Tail(toks)) IN ParseMembers(r.rest, Put(acc, Head(toks).v, r.value))

\* a path with no file, and the file a successful save_json leaves
NoFile == [exists |-> FALSE, text |-> <<>>]

Written(text) == [exists |-> TRUE, text |-> text]

\* variant: the path is never found
load_json_missing(file, default) == default

load_json(file, default) == IF file.exists THEN ParseValue(file.text).value ELSE default

C23_FailureCaught ==
    [][/\ last'.outcome = "failure" =>
            /\ last'.op \in {"antiraid_resumed", "kick_resumed", "ban_resumed", "mute_resumed", "unmute_resumed", "unban_resumed"}
            /\ \E t \in BagToSet(pending) :
                /\ t.guild = last'.guild /\ t.user = last'.user
                /\ pending' = pending (-) SetToBag({t})
                /\ BagCardinality(pending') = BagCardinality(pending) - 1
       /\ last.outcome = "failure" =>
            /\ (last'.op = "on_message" /\ last'.count >= 0) =>
                  /\ last'.count = Kept(Window(last'.guild, last'.user), clock, antiraid[last'.guild].window) + 1
                  /\ last'.count >= antiraid[last'.guild].messages <=> last'.dispatched # "none"
            /\ last'.outcome = "called" => BagCardinality(pending') = BagCardinality(pending) + 1]_vars

\* a message tripping again after the call of the user's first trip failed
C23_Witness ==
    /\ last.op = "on_message"
    /\ last.outcome = "called"
    /\ last.count = 2
    /\ antiraid[last.guild].messages = 1
    /\ BagCardinality(pending) = 1

\* C24: an anti-raid trip whose action is warn appends exactly one warn entry
\* whose moderator field is the sentinel "system", issues no platform call
\* and writes the warns table to its file.
C24_AutomatedWarnBySystem ==
    [][(last'.op = "on_message" /\ last'.dispatched = "warn") =>
        LET old == WarnsOf(last'.guild, last'.user)
            new == Get2(warns', last'.guild, last'.user, <<>>)
        IN /\ Len(new) = Len(old) + 1
           /\ SubSeq(new, 1, Len(old)) = old
           /\ \A i \in DOMAIN new : i > Len(old) => new[i].moderator = "system"
           /\ last'.calls = {}
           /\ pending' = pending
           /\ warns_file' = warns']_vars

\* C25: in every state each activity window is ascending (no timestamp is
\* smaller than one before it), and the window a tracked message leaves
\* after pruning and appending holds the message's own time last and before
\* it only timestamps t with now - t < window; the timestamps it kept are
\* those of the old window that satisfy this, in their order.
C25_WindowAscendingAndFresh ==
    [][/\ \A g \in DOMAIN msg_activity' : \A u \in DOMAIN msg_activity'[g] :
            \A i, j \in DOMAIN msg_activity'[g][u] : i < j => msg_activity'[g][u][i] <= msg_activity'[g][u][j]
       /\ (last'.op = "on_message" /\ last'.outcome \in {"tracked", "called"}) =>
            LET g == last'.guild
                u == last'.user
                w == antiraid[g].window
                old == Window(g, u)
                new == Get2(msg_activity', g, u, <<>>)
            IN /\ new # <<>>
               /\ \A i \in DOMAIN new : clock - new[i] < w
               /\ \A i \in DOMAIN new : i = Len(new) => new[i] = clock
               /\ Len(new) = Kept(old, clock, w) + 1
               /\ \A i \in DOMAIN new : i < Len(new) => \E k \in DOMAIN old : k >= i /\ old[k] = new[i]]_vars

C25_Witness ==
    /\ last.op = "on_message"
    /\ last.count = 2
    /\ clock = 1
    /\ antiraid[last.guild].window = 2
    /\ Window(last.guild, last.user) = <<0, 1>>

\* two guilds and two users, with the handlers of all of them interleaved
NextIso ==
    /\ \/ \E g \in Guilds, p \in IsoPerms, a \in IsoActions, m \in IsoMessages, w \in WarnWindows, d \in RaidDurations, ok \in Saves : AntiraidCmd(g, p, a, m, w, d, ok)
       \/ \E g \in Guilds, u \in Users, p \in IsoPerms, ok \in Saves : Room(g, u, SysMaxWindow, SysMaxWarns, MaxPending) /\ OnMessage(g, u, p, ok)
       \/ \E t \in BagToSet(pending), success \in BOOLEAN : AntiRaidResumed(t, success)
       \/ \E g \in Guilds, a \in Moderators, p \in IsoPerms, m \in Users, ok \in Saves : Removewarn(g, a, p, m, ok)
       \/ \E g \in IsoMuteGuilds, a \in Moderators, p \in IsoPerms, ar \in IsoRanks, m \in IsoMuteUsers, mr \in IsoRanks, n \in MinutesInputs, r \in Reasons : BagCardinality(pending) < SysMaxPending /\ Mute(g, a, p, ar, m, mr, n, r)
       \/ \E t \in BagToSet(pending), success \in BOOLEAN, ok \in Saves : CommandResumed(t, success, ok)
    /\ Tracking /\ UNCHANGED <<conv_memory, conv_file>>

SpecIso == Init /\ [][NextIso]_vars

\* C26: a step that handles a message or command of (guild g, user u)
\* leaves the activity window, the warn list and the mute record of every
\* other user of g and of every user of every other guild as they were, and
\* the anti-raid configuration of every other guild, however the handlers of
\* the guilds interleave.
C26_Isolation ==
    [][\A g \in Guilds :
        /\ g # last'.guild =>
              /\ g \in DOMAIN antiraid' <=> g \in DOMAIN antiraid
              /\ g \in DOMAIN antiraid /\ g \in DOMAIN antiraid' => antiraid'[g] = antiraid[g]
        /\ \A u \in Users : (g # last'.guild \/ u # last'.user) =>
              /\ Get2(msg_activity', g, u, <<>>) = Window(g, u)
              /\ Has2(msg_activity', g, u) <=> Has2(msg_activity, g, u)
              /\ Get2(warns', g, u, <<>>) = WarnsOf(g, u)
              /\ Has2(warns', g, u) <=> Has2(warns, g, u)
              /\ Has2(mutes', g, u) <=> Has2(mutes, g, u)
              /\ Has2(mutes, g, u) /\ Has2(mutes', g, u) => mutes'[g][u] = mutes[g][u]]_vars

\* an automated warn of (g1, u1) while a mute of g2 is suspended, next to a
\* window of (g1, u2) and a mute record of (g2, u1)
C26_Witness ==
    /\ last.op = "on_message"
    /\ last.outcome = "warned"
    /\ last.guild = "g1"
    /\ last.user = "u1"
    /\ Window("g1", "u1") = <<>>
    /\ Window("g1", "u2") # <<>>
    /\ Has2(mutes, "g2", "u1")
    /\ "g2" \in DOMAIN antiraid
    /\ \E t \in BagToSet(pending) : t.guild = "g2"

\* C27: while an anti-raid ban, kick or timeout call for a (guild, user) is
\* suspended, no message of that user issues a second anti-raid platform call
\* for the same (guild, user).
C27_OnePunishmentPerTrip ==
    [][(last'.op = "on_message" /\ last'.calls # {}) =>
        ~\E t \in BagToSet(pending) : t.kind = "antiraid" /\ t.guild = last'.guild /\ t.user = last'.user]_vars

\* the anti-raid path of a guild whose configuration is set once, one call
\* suspended at a time
NextRetry ==
    /\ \/ Clock(MaxTime)
       \/ \E g \in RaidGuilds, p \in PermSets, a \in RaidActions, m \in RaidMessages, w \in RaidWindows, d \in RaidDurations, ok \in Saves : g \notin DOMAIN antiraid /\ AntiraidCmd(g, p, a, m, w, d, ok)
       \/ \E g \in RaidGuilds, u \in RaidUsers, p \in PermSets, ok \in Saves : Room(g, u, MaxMessages, MaxWarns, SysMaxPending) /\ OnMessage(g, u, p, ok)
       \/ \E t \in BagToSet(pending), success \in BOOLEAN : AntiRaidResumed(t, success)
    /\ UNCHANGED <<tracked, conv_memory, conv_file>>

SpecRetry == Init /\ [][NextRetry]_vars

\* C28: a trip whose platform call fails leaves the user's window and the
\* configuration as they were; the next message of that user, handled while
\* the window still holds the timestamps that tripped (at least threshold of
\* them, none older than the window) and with the configuration unchanged,
\* trips again and issues the configured call again.
C28_FailedActionRetried ==
    [][/\ (last'.op = "antiraid_resumed" /\ last'.outcome = "failure") =>
            /\ UNCHANGED <<msg_activity, antiraid>>
            /\ last'.dispatched = antiraid[last'.guild].action
       /\ (/\ last.op = "antiraid_resumed" /\ last.outcome = "failure"
           /\ last'.op = "on_message" /\ last'.guild = last.guild /\ last'.user = last.user /\ last'.count >= 0
           /\ Len(Window(last.guild, last.user)) >= antiraid[last.guild].messages
           /\ Kept(Window(last.guild, last.user), clock, antiraid[last.guild].window) = Len(Window(last.guild, last.user))) =>
            /\ last'.count = Len(Window(last.guild, last.user)) + 1
            /\ last'.dispatched = last.dispatched
            /\ last'.calls = {last.dispatched}
            /\ \E t \in BagToSet(pending') : t.kind = "antiraid" /\ t.guild = last.guild /\ t.user = last.user /\ t.action = last.dispatched /\ pending' = pending (+) SetToBag({t})]_vars

\* the retry of a mute whose first call failed a second earlier
C28_Witness ==
    /\ last.op = "on_message"
    /\ last.outcome = "called"
    /\ last.dispatched = "mute"
    /\ clock = 1
    /\ antiraid[last.guild].messages = 2
    /\ Window(last.guild, last.user) = <<0, 0, 1>>

\* the anti-raid path with the configuration command taking any action string
NextDispatch == AntiRaid(RaidGuilds, RaidUsers, PermSets, ActionInputs, RaidMessages, WarnWindows, RaidDurations, MaxWindow, MaxWarns, MaxPending) /\ UNCHANGED <<tracked, conv_memory, conv_file>>

SpecDispatch == Init /\ [][NextDispatch]_vars

\* C29: every anti-raid record in the table or its file is well-formed: an
\* enabled record has action ban, kick, mute or warn, a disabled record is
\* the disabled default; and every action the listener dispatches, and every
\* call it has suspended, is one of those four.
C29_ConfigWellFormed ==
    /\ \A g \in DOMAIN antiraid :
          IF antiraid[g].enabled
          THEN antiraid[g].action \in {"ban", "kick", "mute", "warn"}
          ELSE antiraid[g] = [enabled |-> FALSE, action |-> "kick", messages |-> 20, window |-> 5, mute_duration |-> 30]
    /\ \A g \in DOMAIN antiraid_file :
          IF antiraid_file[g].enabled
          THEN antiraid_file[g].action \in {"ban", "kick", "mute", "warn"}
          ELSE antiraid_file[g] = [enabled |-> FALSE, action |-> "kick", messages |-> 20, window |-> 5, mute_duration |-> 30]
    /\ last.op \in {"on_message", "antiraid_resumed"} => last.dispatched \in {"none", "ban", "kick", "mute", "warn"}
    /\ last.op = "on_message" => last.outcome \in {"exempt", "disabled", "tracked", "called", "warned"}
    /\ (last.op = "on_message" /\ last.count >= 0 /\ last.count >= antiraid[last.guild].messages) => last.dispatched \in {"ban", "kick", "mute", "warn"}
    /\ \A t \in BagToSet(pending) : t.kind = "antiraid" => t.action \in {"ban", "kick", "mute"}

C29_Witness ==
    /\ last.op = "on_message"
    /\ last.dispatched = "mute"
    /\ antiraid[last.guild].action = "mute"
    /\ \E t \in BagToSet(pending) : t.kind = "antiraid" /\ t.action = "ban"

\* ------------------------------------------------- AI reply and its history
ChatEntry(author, message) == [author |-> author, message |-> message]

\* conversation[-n:]
LastN(s, n) == SubSeq(s, Len(s) - n + 1, Len(s))

\* "Keep only last 10 messages": the slice is a new list
Trimmed(conversation) == IF Len(conversation) > HistoryLimit THEN LastN(conversation, HistoryLimit) ELSE conversation

\* A message that mentions the bot in a guild with AI replies on.  The list
\* got from self.conv_memory is the stored list itself when the channel has
\* one, so the append changes the table at once; the trimmed copy is stored
\* only when the completion call has returned.  A reply that then fails to
\* send leaves the state of one that was sent.
AiReply(g, ch, author, text, completed, ok) ==
    LET known == ch \in DOMAIN conv_memory
        appended == Append(Get(conv_memory, ch, <<>>), ChatEntry(author, text))
        conversation == Trimmed(appended)
    IN /\ IF completed
          THEN /\ conv_memory' = Put(conv_memory, ch, conversation)
               /\ conv_file' = save_json(conv_file, conv_memory', ok)
          ELSE /\ conv_memory' = IF known THEN Put(conv_memory, ch, appended) ELSE conv_memory
               /\ UNCHANGED conv_file
       /\ last' = Step("ai_reply", g, author, {}, "none", -1, completed, IF completed /\ ok THEN {"conv_memory"} ELSE {}, IF completed THEN "replied" ELSE "unanswered")
       /\ UNCHANGED <<antiraid, warns, mutes, msg_activity, antiraid_file, warns_file, mutes_file, pending, clock>>

History(ch) == Get(conv_memory, ch, <<>>)

\* the AI replies of two channels
NextChat == (\E g \in RaidGuilds, ch \in Channels, u \in RaidUsers, x \in Texts, completed \in BOOLEAN, ok \in Saves : Len(History(ch)) < MaxHistory /\ AiReply(g, ch, u, x, completed, ok)) /\ UNCHANGED tracked

SpecChat == Init /\ [][NextChat]_vars

\* C30: the conversation history of a channel never holds more than 10
\* entries, whether the attempts to reply succeeded or failed.
C30_HistoryAtMostTen ==
    \A ch \in DOMAIN conv_memory : Len(conv_memory[ch]) <= 10

====
